---- MODULE Spec2Model ----
(***************************************************************************)
(* gitfinder: a bounded-concurrency recursive directory walk that reports  *)
(* the git repositories without an "origin" remote (src/main.rs), its     *)
(* repository filter and its path simplifier (src/lib.rs).                *)
(*                                                                         *)
(* A path is the sequence of its components; the file system is a fixed   *)
(* tree whose git state, blocklist and permit capacity are drawn in Init. *)
(***************************************************************************)
EXTENDS Integers, Sequences, FiniteSets, TLC

VARIABLES
    gitdirs,              \* the directories that are git metadata directories
    origin,               \* the gitdirs whose repository has a remote "origin"
    bad_path_components,  \* AddToGithub.bad_path_components
    concurrency_limit,    \* capacity the Semaphore was built with
    permits,              \* permits the Semaphore has left
    tasks,                \* Arc<Mutex<Vec<JoinHandle>>>: handles, by directory
    current_tasks,        \* main's snapshot of tasks being awaited
    current_count,        \* Arc<Mutex<usize>> active count
    max_count,            \* Arc<Mutex<usize>> peak count
    mainPc,               \* position of main
    result,               \* what main returned: "none", "Ok" or "Err"
    pc,                   \* position of the walk_dir task of each directory
    todo,                 \* entries of the directory its task has not handled yet
    cur,                  \* the entry a task is handling (<<>> when none)
    stdout,               \* chunks written to standard output, in order
    stderr,               \* diagnostics written by eprintln!, in order
    reported,             \* directories whose row was written completely
    rounds,               \* non-empty snapshots the join loop has taken
    locks,                \* holder of each std::sync::Mutex (<<>> when free)
    call                  \* last application of a library function (lib.rs)

vars == <<gitdirs, origin, bad_path_components, concurrency_limit, permits,
          tasks, current_tasks, current_count, max_count, mainPc, result,
          pc, todo, cur, stdout, stderr, reported, rounds, locks, call>>

fsVars == <<gitdirs, origin, bad_path_components, concurrency_limit>>

-----------------------------------------------------------------------------
(* Bounds of the model *)

\* largest semaphore capacity tried (main builds it with 100)
MaxPermits == 2
\* most I/O or inspection failures injected in one run
MaxFaults == 1
\* longest relative path given to simplified_repo_path
MaxLen == 3

-----------------------------------------------------------------------------
(* The directory tree that is walked *)

root_dir == <<"r">>

DirA == <<"r", "A">>
DirAGit == <<"r", "A", ".git">>
DirY == <<"r", "Y">>
DirTarget == <<"r", "Y", "target">>
DirTargetGit == <<"r", "Y", "target", ".git">>
FileAHead == <<"r", "A", ".git", "HEAD">>
FileTargetHead == <<"r", "Y", "target", ".git", "HEAD">>

Dirs == {DirA, DirAGit, DirY, DirTarget, DirTargetGit}
Files == {FileAHead, FileTargetHead}
Units == {root_dir} \cup Dirs

\* directories that may hold a repository's metadata
GitCandidates == {DirAGit, DirTargetGit}

\* fs::read_dir(dir): the immediate entries of dir
read_dir(dir) ==
    {e \in Dirs \cup Files : Len(e) = Len(dir) + 1 /\ SubSeq(e, 1, Len(dir)) = dir}

\* entry.file_type().is_dir()
is_dir(e) == e \in Dirs

IsPrefix(p, q) == Len(p) <= Len(q) /\ SubSeq(q, 1, Len(p)) = p
\* d lies strictly beneath a
Beneath(d, a) == IsPrefix(a, d) /\ d # a

-----------------------------------------------------------------------------
(* Path functions of std::path, on component sequences.  An Option or a   *)
(* Result is a sequence of length 0 (None, Err) or 1 (Some, Ok).          *)

file_name(path) ==
    IF path = <<>> \/ path[Len(path)] = ".." THEN <<>> ELSE <<path[Len(path)]>>

parent(path) ==
    IF path = <<>> THEN <<>> ELSE <<SubSeq(path, 1, Len(path) - 1)>>

strip_prefix(path, base) ==
    IF IsPrefix(base, path) THEN <<SubSeq(path, Len(base) + 1, Len(path))>> ELSE <<>>

RECURSIVE display(_)
display(path) ==
    IF path = <<>> THEN ""
    ELSE IF Len(path) = 1 THEN path[1]
    ELSE path[1] \o "/" \o display(Tail(path))

-----------------------------------------------------------------------------
(* git2 as the program uses it *)

\* Repository::open(path): the repository whose metadata directory is path
\* or path/.git, named by that metadata directory (repo.path())
Repository_open(path) ==
    IF Append(path, ".git") \in gitdirs THEN <<Append(path, ".git")>>
    ELSE IF path \in gitdirs THEN <<path>>
    ELSE <<>>

\* repo.find_remote("origin").is_ok()
find_remote_origin(repo) == repo \in origin

-----------------------------------------------------------------------------
(* src/lib.rs *)

filter_no_origin_check(path) ==
    IF file_name(path) # <<>> /\ file_name(path)[1] \in bad_path_components
    THEN FALSE
    ELSE Repository_open(path) # <<>>

\* AddToGithub::filter
filter(path) ==
    IF file_name(path) # <<>> /\ file_name(path)[1] \in bad_path_components
    THEN FALSE
    ELSE IF Repository_open(path) = <<>> THEN FALSE
    ELSE IF find_remote_origin(Repository_open(path)[1]) THEN FALSE
    ELSE TRUE

PANIC == "panic: Impossible! path has no parent or is not under base"

simplified_repo_path_keep_git(path, base) ==
    IF strip_prefix(path, base) # <<>>
    THEN display(strip_prefix(path, base)[1])
    ELSE PANIC

simplified_repo_path(path, base) ==
    LET path_to_strip == IF file_name(path) = <<".git">>
                         THEN parent(path)[1]
                         ELSE path
    IN  IF strip_prefix(path_to_strip, base) # <<>>
        THEN display(strip_prefix(path_to_strip, base)[1])
        ELSE PANIC

-----------------------------------------------------------------------------
(* src/main.rs: print_git_repo_info *)

\* commit times (seconds) the revwalk of a repository yields, in its order
revwalk(repo) ==
    IF repo = DirAGit THEN <<259200, 86400, 172800>> ELSE <<432000>>

unsigned_abs(n) == IF n < 0 THEN 0 - n ELSE n

\* the seconds of one calendar day
SecondsPerDay == 86400

\* DateTime::from(UNIX_EPOCH + Duration::from_secs(secs)).format("%y-%m-%d"):
\* the calendar day that holds the instant, written as its number from the
\* epoch (time zone offset 0)
format(secs) == ToString(secs \div SecondsPerDay)

\* the loop over the revwalk: earliest, latest (Options) and count
RECURSIVE track_commits(_, _)
track_commits(times, acc) ==
    IF times = <<>> THEN acc
    ELSE LET t == Head(times)
             e == IF acc.earliest = <<>> \/ t < acc.earliest[1]
                  THEN <<t>> ELSE acc.earliest
             l == IF acc.latest = <<>> \/ t > acc.latest[1]
                  THEN <<t>> ELSE acc.latest
         IN  track_commits(Tail(times),
                           [earliest |-> e, latest |-> l, count |-> acc.count + 1])

commit_info(times) ==
    track_commits(times, [earliest |-> <<>>, latest |-> <<>>, count |-> 0])

\* a chunk of output: its text and whether it ends the line
Chunk(s, nl) == [s |-> s, nl |-> nl]

\* the closure print_time
print_time(time) ==
    IF time # <<>>
    THEN Chunk("," \o format(unsigned_abs(time[1])), FALSE)
    ELSE Chunk(",", TRUE)

\* the four writes of one report, in order, for a revwalk that yields times
report(text, times) ==
    LET info == commit_info(times)
    IN  << Chunk(text, FALSE),
           print_time(info.earliest),
           print_time(info.latest),
           Chunk("," \o ToString(info.count), TRUE) >>

\* the k-th write of the report of the repository in directory path
report_chunk(path, k) ==
    LET repo == Repository_open(path)[1]
    IN  report(simplified_repo_path(repo, root_dir), revwalk(repo))[k]

\* print_git_repo_info on a repository whose primary branch holds the
\* commits times: a branch exists only once it has a commit, so with no
\* commit find_branch fails and nothing is written
print_git_repo_info(text, times) ==
    IF times = <<>>
    THEN [result |-> "Err", out |-> <<>>]
    ELSE [result |-> "Ok", out |-> report(text, times)]

Header == Chunk("repository,oldest,newest,count", TRUE)

-----------------------------------------------------------------------------
(* Initial states *)

IdleCall == [fn |-> "none"]

\* the three mutexes: Arc<Mutex<..>> tasks, current_count and max_count
LockNames == {"tasks", "current_count", "max_count"}

WalkInit ==
    /\ permits = concurrency_limit
    /\ tasks = <<>>
    /\ current_tasks = <<>>
    /\ current_count = 0
    /\ max_count = 0
    /\ mainPc = "canonicalize"
    /\ result = "none"
    /\ pc = [d \in Units |-> "idle"]
    /\ todo = [d \in Units |-> read_dir(d)]
    /\ cur = [d \in Units |-> <<>>]
    /\ stdout = <<>>
    /\ stderr = <<>>
    /\ reported = {}
    /\ rounds = 0
    /\ locks = [l \in LockNames |-> <<>>]

Init ==
    /\ gitdirs = GitCandidates
    /\ origin \in SUBSET {DirTargetGit}
    /\ bad_path_components \in {{}, {"target"}}
    /\ concurrency_limit \in 1..MaxPermits
    /\ call = IdleCall
    /\ WalkInit

-----------------------------------------------------------------------------
(* main *)

mainVars == <<mainPc, result, current_tasks, rounds>>
unitVars == <<pc, todo, cur>>
countVars == <<current_count, max_count>>
outVars == <<stdout, stderr, reported>>

\* fs::canonicalize(args.dir).await?
canonicalize_ok ==
    /\ mainPc = "canonicalize"
    /\ mainPc' = "header"
    /\ UNCHANGED <<fsVars, locks, permits, tasks, current_tasks, countVars, result,
                   unitVars, outVars, rounds, call>>

canonicalize_err ==
    /\ mainPc = "canonicalize"
    /\ mainPc' = "done"
    /\ result' = "Err"
    /\ UNCHANGED <<fsVars, locks, permits, tasks, current_tasks, countVars,
                   unitVars, outVars, rounds, call>>

\* a main that starts the walk without having written the header
println_header_skipped ==
    /\ mainPc = "header"
    /\ mainPc' = "spawn"
    /\ UNCHANGED <<fsVars, locks, permits, tasks, current_tasks, countVars, result,
                   unitVars, outVars, rounds, call>>

\* println!("repository,oldest,newest,count")
println_header ==
    /\ mainPc = "header"
    /\ stdout' = Append(stdout, Header)
    /\ mainPc' = "spawn"
    /\ UNCHANGED <<fsVars, locks, permits, tasks, current_tasks, countVars, result,
                   unitVars, stderr, reported, rounds, call>>

\* let initial_task = task::spawn(...)
spawn_initial ==
    /\ mainPc = "spawn"
    /\ pc' = [pc EXCEPT ![root_dir] = "acquire"]
    /\ mainPc' = "push"
    /\ UNCHANGED <<fsVars, locks, permits, tasks, current_tasks, countVars, result,
                   todo, cur, outVars, rounds, call>>

\* tasks.lock().unwrap().push(initial_task)
push_initial ==
    /\ mainPc = "push"
    /\ tasks' = Append(tasks, root_dir)
    /\ mainPc' = "loop"
    /\ UNCHANGED <<fsVars, locks, permits, current_tasks, countVars, result,
                   unitVars, outVars, rounds, call>>

\* a join loop that waits for one snapshot only
join_take_once ==
    /\ mainPc = "loop"
    /\ IF tasks = <<>> \/ rounds >= 1
       THEN /\ mainPc' = "done"
            /\ result' = "Ok"
            /\ UNCHANGED <<tasks, current_tasks, rounds>>
       ELSE /\ current_tasks' = tasks
            /\ tasks' = <<>>
            /\ rounds' = IF rounds < 2 THEN rounds + 1 ELSE rounds
            /\ mainPc' = "await"
            /\ UNCHANGED result
    /\ UNCHANGED <<fsVars, locks, permits, countVars, unitVars, outVars, call>>

\* a main whose result reflects the units' errors
join_take_propagating ==
    /\ mainPc = "loop"
    /\ IF tasks = <<>>
       THEN /\ mainPc' = "done"
            /\ result' = IF stderr = <<>> THEN "Ok" ELSE "Err"
            /\ UNCHANGED <<tasks, current_tasks, rounds>>
       ELSE /\ current_tasks' = tasks
            /\ tasks' = <<>>
            /\ rounds' = IF rounds < 2 THEN rounds + 1 ELSE rounds
            /\ mainPc' = "await"
            /\ UNCHANGED result
    /\ UNCHANGED <<fsVars, locks, permits, countVars, unitVars, outVars, call>>

\* the head of the join loop: break on an empty list, else take the list;
\* after the loop main returns Ok(())
join_take ==
    /\ mainPc = "loop"
    /\ IF tasks = <<>>
       THEN /\ mainPc' = "done"
            /\ result' = "Ok"
            /\ UNCHANGED <<tasks, current_tasks, rounds>>
       ELSE /\ current_tasks' = tasks
            /\ tasks' = <<>>
            /\ rounds' = IF rounds < 2 THEN rounds + 1 ELSE rounds
            /\ mainPc' = "await"
            /\ UNCHANGED result
    /\ UNCHANGED <<fsVars, locks, permits, countVars, unitVars, outVars, call>>

\* for handle in current_tasks { handle.await; }
join_await ==
    /\ mainPc = "await"
    /\ current_tasks # <<>>
    /\ pc[Head(current_tasks)] = "done"
    /\ current_tasks' = Tail(current_tasks)
    /\ mainPc' = IF Tail(current_tasks) = <<>> THEN "loop" ELSE "await"
    /\ UNCHANGED <<fsVars, locks, permits, tasks, countVars, result, unitVars,
                   outVars, rounds, call>>

-----------------------------------------------------------------------------
(* walk_dir: the task of one directory *)

\* an I/O or inspection failure may still be injected
MayFail == Len(stderr) < MaxFaults

\* a failing walk_dir whose permit is never given back
Fail_leaking(d, cause) ==
    /\ permits' = permits
    /\ stderr' = Append(stderr, [unit |-> d, cause |-> cause])
    /\ pc' = [pc EXCEPT ![d] = "done"]

\* walk_dir returns Err(cause): the permit is dropped, the spawning closure
\* writes its diagnostic and the task is complete
Fail(d, cause) ==
    /\ permits' = permits + 1
    /\ stderr' = Append(stderr, [unit |-> d, cause |-> cause])
    /\ pc' = [pc EXCEPT ![d] = "done"]

\* an acquire that does not wait for a permit
acquire_unbounded(d) ==
    /\ pc[d] = "acquire"
    /\ permits' = permits - 1
    /\ pc' = [pc EXCEPT ![d] = "count"]
    /\ UNCHANGED <<fsVars, locks, tasks, countVars, mainVars, todo, cur, outVars, call>>

\* let _permit = semaphore.acquire().await
acquire(d) ==
    /\ pc[d] = "acquire"
    /\ permits > 0
    /\ permits' = permits - 1
    /\ pc' = [pc EXCEPT ![d] = "count"]
    /\ UNCHANGED <<fsVars, locks, tasks, countVars, mainVars, todo, cur, outVars, call>>

\* increment the active count and update the peak
count_up(d) ==
    /\ pc[d] = "count"
    /\ current_count' = current_count + 1
    /\ max_count' = IF current_count' > max_count THEN current_count' ELSE max_count
    /\ pc' = [pc EXCEPT ![d] = "read_dir"]
    /\ UNCHANGED <<fsVars, locks, permits, tasks, mainVars, todo, cur, outVars, call>>

\* fs::read_dir(&dir).await succeeds
read_dir_ok(d) ==
    /\ pc[d] = "read_dir"
    /\ pc' = [pc EXCEPT ![d] = "next"]
    /\ UNCHANGED <<fsVars, locks, permits, tasks, countVars, mainVars, todo, cur,
                   outVars, call>>

\* a read_dir failure that is reported by walk_dir and again by its caller
read_dir_err_twice(d) ==
    /\ pc[d] = "read_dir"
    /\ MayFail
    /\ permits' = permits + 1
    /\ stderr' = stderr \o << [unit |-> d, cause |-> "read_dir"],
                              [unit |-> d, cause |-> "read_dir"] >>
    /\ pc' = [pc EXCEPT ![d] = "done"]
    /\ UNCHANGED <<fsVars, locks, tasks, countVars, mainVars, todo, cur, stdout,
                   reported, call>>

\* fs::read_dir(&dir).await fails: "Failed to read directory"
read_dir_err(d) ==
    /\ pc[d] = "read_dir"
    /\ MayFail
    /\ Fail(d, "read_dir")
    /\ UNCHANGED <<fsVars, locks, tasks, countVars, mainVars, todo, cur, stdout,
                   reported, call>>

\* entries.next() yields an error: "Failed to read entry"
next_err(d) ==
    /\ pc[d] = "next"
    /\ MayFail
    /\ Fail(d, "entry")
    /\ UNCHANGED <<fsVars, locks, tasks, countVars, mainVars, todo, cur, stdout,
                   reported, call>>

\* entry.file_type() fails: "Failed to get file type"
file_type_err(d) ==
    /\ pc[d] = "next"
    /\ todo[d] # {}
    /\ MayFail
    /\ Fail(d, "file_type")
    /\ UNCHANGED <<fsVars, locks, tasks, countVars, mainVars, todo, cur, stdout,
                   reported, call>>

\* an entry that is not a directory is skipped
next_file(d) ==
    /\ pc[d] = "next"
    /\ \E e \in todo[d] :
        /\ ~is_dir(e)
        /\ todo' = [todo EXCEPT ![d] = @ \ {e}]
    /\ UNCHANGED <<fsVars, locks, permits, tasks, countVars, mainVars, pc, cur,
                   outVars, call>>

\* a directory that fails the filter: task::spawn a walk_dir task for it
next_spawn(d) ==
    /\ pc[d] = "next"
    /\ \E e \in todo[d] :
        /\ is_dir(e)
        /\ ~filter(e)
        /\ todo' = [todo EXCEPT ![d] = @ \ {e}]
        /\ cur' = [cur EXCEPT ![d] = e]
        /\ pc' = [pc EXCEPT ![d] = "push", ![e] = "acquire"]
    /\ UNCHANGED <<fsVars, locks, permits, tasks, countVars, mainVars, outVars, call>>

\* a spawner that loses the handle of the task it spawned
push_task_dropping(d) ==
    /\ pc[d] = "push"
    /\ cur' = [cur EXCEPT ![d] = <<>>]
    /\ pc' = [pc EXCEPT ![d] = "next"]
    /\ UNCHANGED <<fsVars, locks, permits, tasks, countVars, mainVars, todo, outVars, call>>

\* tasks.lock().unwrap().push(new_task)
push_task(d) ==
    /\ pc[d] = "push"
    /\ tasks' = Append(tasks, cur[d])
    /\ cur' = [cur EXCEPT ![d] = <<>>]
    /\ pc' = [pc EXCEPT ![d] = "next"]
    /\ UNCHANGED <<fsVars, locks, permits, countVars, mainVars, todo, outVars, call>>

\* a directory that passes the filter is inspected by this task, and
\* print_git_repo_info fails before it writes (open, branch, revwalk)
inspect_err(d) ==
    /\ pc[d] = "next"
    /\ MayFail
    /\ \E e \in todo[d] :
        /\ is_dir(e)
        /\ filter(e)
        /\ todo' = [todo EXCEPT ![d] = @ \ {e}]
    /\ Fail(d, "inspect")
    /\ UNCHANGED <<fsVars, locks, tasks, countVars, mainVars, cur, stdout,
                   reported, call>>

\* a task that gives its permit back when it begins an inspection
print_path_releasing(d) ==
    /\ pc[d] = "next"
    /\ \E e \in todo[d] :
        /\ is_dir(e)
        /\ filter(e)
        /\ todo' = [todo EXCEPT ![d] = @ \ {e}]
        /\ cur' = [cur EXCEPT ![d] = e]
        /\ stdout' = Append(stdout, report_chunk(e, 1))
    /\ permits' = permits + 1
    /\ pc' = [pc EXCEPT ![d] = "oldest"]
    /\ UNCHANGED <<fsVars, locks, tasks, countVars, mainVars, stderr, reported, call>>

\* a directory that passes the filter is inspected by this task:
\* print!("{}", simplified_repo_path(repo.path().into(), &root_path))
print_path(d) ==
    /\ pc[d] = "next"
    /\ \E e \in todo[d] :
        /\ is_dir(e)
        /\ filter(e)
        /\ todo' = [todo EXCEPT ![d] = @ \ {e}]
        /\ cur' = [cur EXCEPT ![d] = e]
        /\ stdout' = Append(stdout, report_chunk(e, 1))
    /\ pc' = [pc EXCEPT ![d] = "oldest"]
    /\ UNCHANGED <<fsVars, locks, permits, tasks, countVars, mainVars,
                   stderr, reported, call>>

\* print_time(earliest)
print_oldest(d) ==
    /\ pc[d] = "oldest"
    /\ stdout' = Append(stdout, report_chunk(cur[d], 2))
    /\ pc' = [pc EXCEPT ![d] = "newest"]
    /\ UNCHANGED <<fsVars, locks, permits, tasks, countVars, mainVars, todo, cur,
                   stderr, reported, call>>

\* print_time(latest)
print_newest(d) ==
    /\ pc[d] = "newest"
    /\ stdout' = Append(stdout, report_chunk(cur[d], 3))
    /\ pc' = [pc EXCEPT ![d] = "count_col"]
    /\ UNCHANGED <<fsVars, locks, permits, tasks, countVars, mainVars, todo, cur,
                   stderr, reported, call>>

\* println!(",{}", count); print_git_repo_info returns Ok
print_count(d) ==
    /\ pc[d] = "count_col"
    /\ stdout' = Append(stdout, report_chunk(cur[d], 4))
    /\ reported' = reported \cup {cur[d]}
    /\ cur' = [cur EXCEPT ![d] = <<>>]
    /\ pc' = [pc EXCEPT ![d] = "next"]
    /\ UNCHANGED <<fsVars, locks, permits, tasks, countVars, mainVars, todo, stderr, call>>

\* a task that ends its body only after the tasks it spawned are complete
count_down_waiting(d) ==
    /\ pc[d] = "next"
    /\ todo[d] = {}
    /\ \A e \in Units : (e # root_dir /\ parent(e) = d) => pc[e] \in {"idle", "done"}
    /\ current_count' = current_count - 1
    /\ pc' = [pc EXCEPT ![d] = "return"]
    /\ UNCHANGED <<fsVars, locks, permits, tasks, max_count, mainVars, todo, cur,
                   outVars, call>>

\* entries.next() yields None; decrement the active count
count_down(d) ==
    /\ pc[d] = "next"
    /\ todo[d] = {}
    /\ current_count' = current_count - 1
    /\ pc' = [pc EXCEPT ![d] = "return"]
    /\ UNCHANGED <<fsVars, locks, permits, tasks, max_count, mainVars, todo, cur,
                   outVars, call>>

\* a task that ends without giving its permit back
return_ok_leaking(d) ==
    /\ pc[d] = "return"
    /\ pc' = [pc EXCEPT ![d] = "done"]
    /\ UNCHANGED <<fsVars, locks, permits, tasks, countVars, mainVars, todo, cur,
                   outVars, call>>

\* Ok(()): the permit is dropped and the task is complete
return_ok(d) ==
    /\ pc[d] = "return"
    /\ permits' = permits + 1
    /\ pc' = [pc EXCEPT ![d] = "done"]
    /\ UNCHANGED <<fsVars, locks, tasks, countVars, mainVars, todo, cur, outVars, call>>

walk_dir(d) ==
    \/ acquire(d) \/ count_up(d)
    \/ read_dir_ok(d) \/ read_dir_err(d)
    \/ next_err(d) \/ file_type_err(d) \/ next_file(d) \/ next_spawn(d) \/ push_task(d)
    \/ inspect_err(d) \/ print_path(d) \/ print_oldest(d) \/ print_newest(d)
    \/ print_count(d)
    \/ count_down(d) \/ return_ok(d)

main ==
    \/ canonicalize_ok \/ canonicalize_err \/ println_header
    \/ spawn_initial \/ push_initial \/ join_take \/ join_await

Next == main \/ \E d \in Units : walk_dir(d)

Spec == Init /\ [][Next]_vars

\* the executor runs every task that can take a step
FairSpec == Spec /\ WF_vars(main) /\ \A d \in Units : WF_vars(walk_dir(d))

-----------------------------------------------------------------------------
(* The library functions of src/lib.rs applied to drawn inputs *)

walkVars == <<permits, tasks, current_tasks, current_count, max_count, mainPc,
              result, pc, todo, cur, stdout, stderr, reported, rounds, locks>>

\* names a blocklist is drawn from
BlockNames == {"target", ".git", "A"}

\* paths the filter is applied to; the last two have no file name
FilterPaths ==
    {DirA, DirAGit, DirY, DirTarget, DirTargetGit, <<"r", "..">>, <<>>}

FilterInit ==
    /\ gitdirs \in SUBSET GitCandidates
    /\ origin \in SUBSET gitdirs
    /\ bad_path_components \in SUBSET BlockNames
    /\ concurrency_limit = 1
    /\ call = IdleCall
    /\ WalkInit

\* filter_dir.filter(&path)
call_filter ==
    /\ \E path \in FilterPaths :
        call' = [fn |-> "filter", path |-> path, out |-> filter(path)]
    /\ UNCHANGED <<fsVars, walkVars>>

FilterSpec == FilterInit /\ [][call_filter]_vars

\* components a relative path is built from
PathNames == {"a", ".git", ".."}

RECURSIVE SeqsUpTo(_, _)
SeqsUpTo(S, n) ==
    IF n = 0 THEN {<<>>}
    ELSE LET shorter == SeqsUpTo(S, n - 1)
         IN  shorter \cup {Append(q, x) : q \in shorter, x \in S}

RelPaths == SeqsUpTo(PathNames, MaxLen)

Roots == {<<"r">>, <<"u", "r">>, <<"r", ".git">>}

PathInit ==
    /\ gitdirs = {}
    /\ origin = {}
    /\ bad_path_components = {}
    /\ concurrency_limit = 1
    /\ call = IdleCall
    /\ WalkInit

\* simplified_repo_path(root/p/.git, root) and simplified_repo_path(root/p, root)
call_simplified_repo_path ==
    /\ \E root \in Roots, p \in RelPaths :
        call' = [fn |-> "simplified_repo_path", root |-> root, p |-> p,
                 with_git |-> simplified_repo_path(root \o p \o <<".git">>, root),
                 plain |-> simplified_repo_path(root \o p, root)]
    /\ UNCHANGED <<fsVars, walkVars>>

PathSpec == PathInit /\ [][call_simplified_repo_path]_vars

\* most commits a drawn branch holds
MaxCommits == 3

\* commit times (seconds) a branch is built from: before, at and after the
\* epoch, within a day and days apart
Stamps == {-86400, -1, 0, 86399, 86400, 172800}

CommitTimes == SeqsUpTo(Stamps, MaxCommits)

CommitInit ==
    /\ gitdirs = {}
    /\ origin = {}
    /\ bad_path_components = {}
    /\ concurrency_limit = 1
    /\ call = IdleCall
    /\ WalkInit

\* print_git_repo_info(&path, root) for the repository "A" of the root, its
\* primary branch holding the commits times in revwalk order
call_print_git_repo_info ==
    /\ \E times \in CommitTimes :
        call' = [fn |-> "print_git_repo_info", times |-> times,
                 ret |-> print_git_repo_info("A", times)]
    /\ UNCHANGED <<fsVars, walkVars>>

CommitSpec == CommitInit /\ [][call_print_git_repo_info]_vars

-----------------------------------------------------------------------------
(* The walk with every mutex operation as a step of its own: lock() takes *)
(* a free mutex, the guard is dropped where its statement or block ends.  *)

\* the holder name of main (a task is named by its directory)
Main == <<"main">>

\* the guards that who holds go out of scope
drop(who) == [l \in LockNames |-> IF locks[l] = who THEN <<>> ELSE locks[l]]

LockInit ==
    /\ gitdirs = GitCandidates
    /\ origin = {DirTargetGit}
    /\ bad_path_components = {}
    /\ concurrency_limit = MaxPermits
    /\ call = IdleCall
    /\ WalkInit

\* tasks.lock().unwrap() of the statement that pushes the initial task
push_initial_lock ==
    /\ mainPc = "push"
    /\ locks["tasks"] = <<>>
    /\ locks' = [locks EXCEPT !["tasks"] = Main]
    /\ mainPc' = "push_locked"
    /\ UNCHANGED <<fsVars, permits, tasks, current_tasks, countVars, result,
                   unitVars, outVars, rounds, call>>

\* .push(initial_task); the guard is dropped at the end of the statement
push_initial_drop ==
    /\ mainPc = "push_locked"
    /\ tasks' = Append(tasks, root_dir)
    /\ locks' = drop(Main)
    /\ mainPc' = "loop"
    /\ UNCHANGED <<fsVars, permits, current_tasks, countVars, result,
                   unitVars, outVars, rounds, call>>

\* let mut locked = tasks.lock().unwrap() at the head of the join loop
join_lock ==
    /\ mainPc = "loop"
    /\ locks["tasks"] = <<>>
    /\ locks' = [locks EXCEPT !["tasks"] = Main]
    /\ mainPc' = "loop_locked"
    /\ UNCHANGED <<fsVars, permits, tasks, current_tasks, countVars, result,
                   unitVars, outVars, rounds, call>>

\* a join loop whose guard outlives the block and is held while awaiting
join_take_keeping ==
    /\ mainPc = "loop_locked"
    /\ IF tasks = <<>>
       THEN /\ mainPc' = "done"
            /\ result' = "Ok"
            /\ locks' = drop(Main)
            /\ UNCHANGED <<tasks, current_tasks, rounds>>
       ELSE /\ current_tasks' = tasks
            /\ tasks' = <<>>
            /\ rounds' = IF rounds < 2 THEN rounds + 1 ELSE rounds
            /\ mainPc' = "await"
            /\ UNCHANGED <<result, locks>>
    /\ UNCHANGED <<fsVars, permits, countVars, unitVars, outVars, call>>

\* break on an empty list, else mem::take; the guard is dropped at the end
\* of the block, before the handles are awaited
join_take_drop ==
    /\ mainPc = "loop_locked"
    /\ IF tasks = <<>>
       THEN /\ mainPc' = "done"
            /\ result' = "Ok"
            /\ UNCHANGED <<tasks, current_tasks, rounds>>
       ELSE /\ current_tasks' = tasks
            /\ tasks' = <<>>
            /\ rounds' = IF rounds < 2 THEN rounds + 1 ELSE rounds
            /\ mainPc' = "await"
            /\ UNCHANGED result
    /\ locks' = drop(Main)
    /\ UNCHANGED <<fsVars, permits, countVars, unitVars, outVars, call>>

\* let mut current_locked = current_count.lock().unwrap()
count_up_lock(d) ==
    /\ pc[d] = "count"
    /\ locks["current_count"] = <<>>
    /\ locks' = [locks EXCEPT !["current_count"] = d]
    /\ pc' = [pc EXCEPT ![d] = "count_locked"]
    /\ UNCHANGED <<fsVars, permits, tasks, countVars, mainVars, todo, cur,
                   outVars, call>>

\* *current_locked += 1; let mut max_locked = max_count.lock().unwrap()
count_up_lock_max(d) ==
    /\ pc[d] = "count_locked"
    /\ locks["max_count"] = <<>>
    /\ current_count' = current_count + 1
    /\ locks' = [locks EXCEPT !["max_count"] = d]
    /\ pc' = [pc EXCEPT ![d] = "max_locked"]
    /\ UNCHANGED <<fsVars, permits, tasks, max_count, mainVars, todo, cur,
                   outVars, call>>

\* update the peak; both guards are dropped at the end of the block
count_up_drop(d) ==
    /\ pc[d] = "max_locked"
    /\ max_count' = IF current_count > max_count THEN current_count ELSE max_count
    /\ locks' = drop(d)
    /\ pc' = [pc EXCEPT ![d] = "read_dir"]
    /\ UNCHANGED <<fsVars, permits, tasks, current_count, mainVars, todo, cur,
                   outVars, call>>

\* tasks.lock().unwrap() of the statement that pushes a spawned task
push_task_lock(d) ==
    /\ pc[d] = "push"
    /\ locks["tasks"] = <<>>
    /\ locks' = [locks EXCEPT !["tasks"] = d]
    /\ pc' = [pc EXCEPT ![d] = "push_locked"]
    /\ UNCHANGED <<fsVars, permits, tasks, countVars, mainVars, todo, cur,
                   outVars, call>>

\* .push(new_task); the guard is dropped at the end of the statement
push_task_drop(d) ==
    /\ pc[d] = "push_locked"
    /\ tasks' = Append(tasks, cur[d])
    /\ cur' = [cur EXCEPT ![d] = <<>>]
    /\ locks' = drop(d)
    /\ pc' = [pc EXCEPT ![d] = "next"]
    /\ UNCHANGED <<fsVars, permits, countVars, mainVars, todo, outVars, call>>

\* entries.next() yields None; let mut locked = current_count.lock().unwrap()
count_down_lock(d) ==
    /\ pc[d] = "next"
    /\ todo[d] = {}
    /\ locks["current_count"] = <<>>
    /\ locks' = [locks EXCEPT !["current_count"] = d]
    /\ pc' = [pc EXCEPT ![d] = "down_locked"]
    /\ UNCHANGED <<fsVars, permits, tasks, countVars, mainVars, todo, cur,
                   outVars, call>>

\* *locked -= 1; the guard is dropped at the end of the block
count_down_drop(d) ==
    /\ pc[d] = "down_locked"
    /\ current_count' = current_count - 1
    /\ locks' = drop(d)
    /\ pc' = [pc EXCEPT ![d] = "return"]
    /\ UNCHANGED <<fsVars, permits, tasks, max_count, mainVars, todo, cur,
                   outVars, call>>

walk_dir_locking(d) ==
    \/ acquire(d)
    \/ count_up_lock(d) \/ count_up_lock_max(d) \/ count_up_drop(d)
    \/ read_dir_ok(d) \/ read_dir_err(d)
    \/ next_err(d) \/ file_type_err(d) \/ next_file(d) \/ next_spawn(d)
    \/ push_task_lock(d) \/ push_task_drop(d)
    \/ inspect_err(d) \/ print_path(d) \/ print_oldest(d) \/ print_newest(d)
    \/ print_count(d)
    \/ count_down_lock(d) \/ count_down_drop(d) \/ return_ok(d)

main_locking ==
    \/ canonicalize_ok \/ canonicalize_err \/ println_header \/ spawn_initial
    \/ push_initial_lock \/ push_initial_drop
    \/ join_lock \/ join_take_drop \/ join_await

LockNext == main_locking \/ \E d \in Units : walk_dir_locking(d)

LockSpec == LockInit /\ [][LockNext]_vars

-----------------------------------------------------------------------------
(* Notions the properties are stated with *)

\* main has left the join loop and returned Ok(())
Joined == mainPc = "done" /\ result = "Ok"

\* the task of d holds a semaphore permit
HoldsPermit(d) ==
    pc[d] \in {"count", "read_dir", "next", "push", "oldest", "newest",
               "count_col", "return"}

\* the directories whose task wrote a diagnostic for the given cause
FailedWith(cause) ==
    {stderr[i].unit : i \in {j \in 1..Len(stderr) : stderr[j].cause = cause}}

DiagnosticsOf(d) == {i \in 1..Len(stderr) : stderr[i].unit = d}

\* the walk reaches x when nothing above it (below the root) passes the filter
Reached(x) == \A a \in Dirs : Beneath(x, a) => ~filter(a)

\* the directories that are to be reported
Qualifying == {x \in Dirs : filter(x) /\ Reached(x)}

\* x was filtered and then reported or walked to its end
Handled(x) == IF filter(x) THEN x \in reported ELSE pc[x] = "done"

\* the text of standard output, line by line
RECURSIVE Lines(_, _)
Lines(chunks, line) ==
    IF chunks = <<>> THEN (IF line = "" THEN <<>> ELSE <<line>>)
    ELSE IF Head(chunks).nl
         THEN <<line \o Head(chunks).s>> \o Lines(Tail(chunks), "")
         ELSE Lines(Tail(chunks), line \o Head(chunks).s)

\* the row of a qualifying directory
Row(x) ==
    report_chunk(x, 1).s \o report_chunk(x, 2).s \o report_chunk(x, 3).s
        \o report_chunk(x, 4).s

-----------------------------------------------------------------------------
(* C1 *)

\* C1: when the join loop breaks on an empty list and main returns, no
\* walk_dir task is pending or running: every task ever spawned, also one
\* whose handle was pushed after a snapshot was taken, is complete.
C1_JoinedMeansAllComplete ==
    Joined => /\ \A d \in Units : pc[d] \in {"idle", "done"}
              /\ tasks = <<>>
              /\ current_tasks = <<>>

\* the loop has returned after more than one snapshot, the deepest task done
C1_Witness ==
    Joined /\ rounds >= 2 /\ pc[DirTargetGit] = "done" /\ pc[DirTarget] = "done"

-----------------------------------------------------------------------------
(* C2 *)

\* C2: under fair scheduling main eventually leaves the join loop, for every
\* capacity drawn, also with more tasks than permits and with handles pushed
\* after the first snapshot; so no reachable state is a deadlock.
C2_WalkCompletes == <>(mainPc = "done")

\* a walk with one permit, four tasks and a late snapshot has completed
C2_Witness ==
    /\ Joined
    /\ concurrency_limit = 1
    /\ rounds >= 2
    /\ Cardinality({d \in Units : pc[d] = "done"}) >= 4

-----------------------------------------------------------------------------
(* C3 *)

\* C3: the number of tasks holding a permit never exceeds the capacity.
C3_PermitCeiling ==
    Cardinality({d \in Units : HoldsPermit(d)}) <= concurrency_limit

\* every permit is out and another task is waiting for one
C3_Witness ==
    /\ Cardinality({d \in Units : HoldsPermit(d)}) = concurrency_limit
    /\ \E d \in Units : pc[d] = "acquire"

-----------------------------------------------------------------------------
(* C4 *)

\* C4: in a finished walk whose failures are read_dir failures, each failed
\* directory has exactly one diagnostic, and every directory the walk reaches
\* that is not beneath a failed one was filtered and then reported (if it
\* qualifies) or walked.
C4_ReadDirFailureIsolated ==
    (Joined /\ \A i \in 1..Len(stderr) : stderr[i].cause = "read_dir") =>
        /\ \A d \in FailedWith("read_dir") : Cardinality(DiagnosticsOf(d)) = 1
        /\ \A x \in Dirs :
            (Reached(x) /\ \A d \in FailedWith("read_dir") : ~Beneath(x, d))
                => Handled(x)

\* Y could not be read; its sibling A was reported and the walk is over
C4_Witness ==
    /\ Joined
    /\ stderr = << [unit |-> DirY, cause |-> "read_dir"] >>
    /\ DirA \in reported

-----------------------------------------------------------------------------
(* C5 *)

\* C5 (as claimed): a failed inspection has no effect on other work: in a
\* finished walk whose failures are inspection failures, every other entry
\* of the failing task's directory was still filtered and then reported or
\* walked.
C5_InspectionFailureIsolated ==
    (Joined /\ \A i \in 1..Len(stderr) : stderr[i].cause = "inspect") =>
        \A d \in FailedWith("inspect") :
            /\ todo[d] = {}
            /\ \A x \in read_dir(d) :
                (is_dir(x) /\ ~filter(x)) => pc[x] = "done"

-----------------------------------------------------------------------------
(* C6 *)

\* C6: filter(P) is true exactly when P's final name component is not in
\* the blocklist, P opens as a repository and that repository has no remote
\* "origin".
C6_FilterExact ==
    call.fn = "filter" =>
        LET P == call.path
            blocklisted == /\ P # <<>>
                           /\ P[Len(P)] # ".."
                           /\ P[Len(P)] \in bad_path_components
            opens == P \in gitdirs \/ Append(P, ".git") \in gitdirs
            has_origin == P \in origin \/ Append(P, ".git") \in origin
        IN  call.out = (~blocklisted /\ opens /\ ~has_origin)

\* a blocklisted directory that holds a repository without origin is refused
C6_Witness ==
    /\ call.fn = "filter"
    /\ call.path = DirTarget
    /\ "target" \in bad_path_components
    /\ DirTargetGit \in gitdirs \ origin
    /\ call.out = FALSE

-----------------------------------------------------------------------------
(* C7 *)

\* C7 (as claimed): no row is written for a repository whose directory name
\* is in the blocklist, neither through the directory nor through its .git.
C7_BlocklistedNeverReported ==
    \A x \in Dirs :
        file_name(x)[1] \in bad_path_components =>
            \A i \in 1..Len(stdout) :
                stdout[i].s # display(strip_prefix(x, root_dir)[1])

-----------------------------------------------------------------------------
(* C8 *)

\* C8 (as claimed): in a finished walk without failure the lines after the
\* header are exactly one row for each qualifying directory, and nothing
\* beneath a qualifying directory was walked.
C8_ExactlyTheQualifyingRows ==
    (Joined /\ stderr = <<>>) =>
        LET lines == Lines(stdout, "")
        IN  /\ Len(lines) = 1 + Cardinality(Qualifying)
            /\ \A x \in Qualifying :
                Cardinality({i \in 2..Len(lines) : lines[i] = Row(x)}) = 1
            /\ \A x \in Qualifying, y \in Dirs : Beneath(y, x) => pc[y] = "idle"

-----------------------------------------------------------------------------
(* C9 *)

\* C9 (as claimed): for every root and every relative path p,
\* simplified_repo_path(root/p/.git, root) = simplified_repo_path(root/p, root) = p.
C9_SimplifyAnyPath ==
    call.fn = "simplified_repo_path" =>
        /\ call.with_git = call.plain
        /\ call.plain = display(call.p)

\* C9 (amended): the same for every p such that the final component of
\* root/p is not ".git".
C9_SimplifyNonGitPath ==
    (call.fn = "simplified_repo_path"
        /\ file_name(call.root \o call.p) # <<".git">>) =>
            /\ call.with_git = call.plain
            /\ call.plain = display(call.p)

\* root/a/a/.git and root/a/a both give "a/a"
C9_Witness ==
    /\ call.fn = "simplified_repo_path"
    /\ call.p = <<"a", "a">>
    /\ call.with_git = "a/a"
    /\ call.plain = "a/a"

-----------------------------------------------------------------------------
(* C10 *)

\* C10: main returns an error only when canonicalize fails, before anything
\* is written or spawned; once the walk has started main returns Ok whatever
\* the tasks' failures.
C10_ErrOnlyBeforeWalk ==
    /\ result = "Err" =>
        (mainPc = "done" /\ pc[root_dir] = "idle" /\ stdout = <<>> /\ stderr = <<>>)
    /\ (mainPc = "done" /\ pc[root_dir] # "idle") => result = "Ok"

\* the root task itself failed and main still returned Ok
C10_Witness ==
    /\ mainPc = "done"
    /\ result = "Ok"
    /\ Len(stderr) = 1
    /\ stderr[1].unit = root_dir

-----------------------------------------------------------------------------
(* C11 *)

\* C11: the header line is written exactly once and before any row: it is
\* the first chunk of standard output, no later chunk is a header, and no
\* task exists before it has been written.
C11_HeaderFirstAndOnce ==
    /\ stdout # <<>> => stdout[1] = Header
    /\ \A i \in 2..Len(stdout) : stdout[i] # Header
    /\ (\E d \in Units : pc[d] # "idle") => stdout # <<>>

\* a task has written the first piece of a row, after the header
C11_Witness ==
    /\ Len(stdout) >= 2
    /\ stdout[1] = Header
    /\ stdout[2] = report_chunk(DirA, 1)

-----------------------------------------------------------------------------
(* C12 *)

\* the tasks that are reading their directory's entries (between the acquire
\* and the end of the body, outside print_git_repo_info)
Scanning == {d \in Units : pc[d] \in {"count", "read_dir", "next", "push", "return"}}

\* the tasks that are inside print_git_repo_info for a qualifying entry
Inspecting == {d \in Units : pc[d] \in {"oldest", "newest", "count_col"}}

\* the permits that are out of the semaphore
PermitsOut == concurrency_limit - permits

-----------------------------------------------------------------------------
(* C13 *)

\* the handle of task d is in the shared task list
InTasks(d) == \E i \in 1..Len(tasks) : tasks[i] = d

\* the handle of task d is in the list the join loop took and is awaiting
InCurrentTasks(d) == \E i \in 1..Len(current_tasks) : current_tasks[i] = d

\* task d has been spawned and its handle is still in the hands of its
\* spawner, which pushes it in its next step
BeingPushed(d) ==
    \/ d = root_dir /\ mainPc = "push"
    \/ \E p \in Units : pc[p] = "push" /\ cur[p] = d

\* task d has been spawned and is not complete
Live(d) == pc[d] \notin {"idle", "done"}

-----------------------------------------------------------------------------
(* C14 *)

\* the tasks whose body has begun (the count was incremented) and has not
\* ended (no decrement, no return)
InBody == {d \in Units : pc[d] \in {"read_dir", "next", "push", "oldest", "newest", "count_col"}}

\* C14: the active count equals the number of tasks whose body has begun and
\* not ended, on failure paths as on success, and is 0 when the join loop
\* has returned.
C14_ActiveCountExact ==
    /\ current_count = Cardinality(InBody)
    /\ Joined => current_count = 0

-----------------------------------------------------------------------------
(* C15 *)

\* C15: the permits out of the semaphore are exactly those of the tasks
\* between their acquire and their end, whether they end by Ok or by Err,
\* and the full capacity is available when the join loop has returned.
C15_PermitsReturned ==
    /\ PermitsOut = Cardinality({d \in Units : HoldsPermit(d)})
    /\ Joined => permits = concurrency_limit

\* the walk is over, a task ended through a failure and another through
\* success, and every permit is back
C15_Witness ==
    /\ Joined
    /\ stderr # <<>>
    /\ \E d \in Units : pc[d] = "done" /\ DiagnosticsOf(d) = {}
    /\ permits = concurrency_limit

-----------------------------------------------------------------------------
(* C17 *)

\* C17: a task never waits for a task it spawned: whenever it has finished
\* its own entry list it can end its body, whenever it has ended its body
\* it can return, and after a spawn it can push the handle, whatever the
\* state of the other tasks; only the join loop waits for a completion.
C17_ParentNeverWaits ==
    \A d \in Units :
        /\ (pc[d] = "next" /\ todo[d] = {}) => ENABLED count_down(d)
        /\ pc[d] = "return" => ENABLED return_ok(d)
        /\ pc[d] = "push" => ENABLED push_task(d)

\* the root task is complete while the task it spawned still waits for its
\* permit or runs
C17_Witness ==
    /\ pc[root_dir] = "done"
    /\ DiagnosticsOf(root_dir) = {}
    /\ Live(DirY)

-----------------------------------------------------------------------------
(* C20 *)

\* C20: the active count and the peak never exceed the capacity of the
\* semaphore, in walks where tasks fail too.
C20_CountWithinCapacity ==
    /\ current_count <= concurrency_limit
    /\ max_count <= concurrency_limit

-----------------------------------------------------------------------------
(* C18 *)

\* the least and the greatest element of a non-empty sequence of integers
Min(times) == CHOOSE t \in {times[i] : i \in 1..Len(times)} :
                  \A i \in 1..Len(times) : t <= times[i]

Max(times) == CHOOSE t \in {times[i] : i \in 1..Len(times)} :
                  \A i \in 1..Len(times) : t >= times[i]

\* the calendar day that holds the instant t seconds from the epoch
DayOf(t) == ToString(t \div SecondsPerDay)

\* C18: for every non-empty sequence of commit times, in any order, the
\* report's oldest date is the day of the minimum, its newest date the day
\* of the maximum, and its count the length of the sequence.
C18_OldestNewestCount ==
    (call.fn = "print_git_repo_info" /\ call.times # <<>>) =>
        /\ call.ret.result = "Ok"
        /\ call.ret.out[2].s = "," \o DayOf(Min(call.times))
        /\ call.ret.out[3].s = "," \o DayOf(Max(call.times))
        /\ call.ret.out[4].s = "," \o ToString(Len(call.times))

-----------------------------------------------------------------------------
(* C19 *)

-----------------------------------------------------------------------------
(* C16 *)

\* main is at a suspension point (or not running)
MainSuspended == mainPc \in {"canonicalize", "await", "done"}

\* the task of d is at a suspension point: it waits for a permit, reads its
\* directory or an entry, or inspects a repository (or it is not running)
Suspended(d) ==
    pc[d] \in {"idle", "acquire", "read_dir", "next", "oldest", "newest",
               "count_col", "done"}

\* C16: neither a task nor main holds the task-list lock, the active-count
\* lock or the peak-count lock at a suspension point: a lock that is held
\* is held by a process inside the block that took it.
C16_NoLockWhileSuspended ==
    \A l \in LockNames :
        /\ locks[l] = Main => ~MainSuspended
        /\ \A d \in Units : locks[l] = d => ~Suspended(d)

\* main holds the task-list lock at the head of the join loop while a task
\* holds the two counter locks
C16_Witness ==
    /\ mainPc = "loop_locked"
    /\ locks["tasks"] = Main
    /\ \E d \in Units : locks["current_count"] = d /\ locks["max_count"] = d

====
